---- MODULE Spec2Model ----
(***************************************************************************)
(* Chapter detection of PDFChapterSplitter (src/pdf_processor.py):         *)
(* detect_chapters and the functions it calls, as a state machine, plus    *)
(* the pure functions _extract_nested_bookmarks, _calculate_end_pages and  *)
(* _create_default_chapters applied to inputs drawn from bounded sets.     *)
(***************************************************************************)
EXTENDS Integers, Sequences, FiniteSets, TLC

VARIABLES
    pc,                \* position in detect_chapters, or in a function call
    total_pages,       \* len(pdf.pages) / len(doc) of the document
    pdf_opens,         \* whether pikepdf.Pdf.open(self.pdf_path) succeeds
    input,             \* argument of the function under call (SpecFlatten, SpecResolve)
    chapters,          \* the local `chapters` / the returned list
    detection_method,  \* self.detection_method
    ran,               \* the detection functions called so far, in call order,
                       \* with "raised" after a heading scan that raised
    threshold          \* SpecThreshold: the local `heading_threshold` of
                       \* _detect_from_headings (0 until it is computed)

vars == <<pc, total_pages, pdf_opens, input, chapters, detection_method, ran,
          threshold>>

(***************************************************************************)
(* Bounds of the model.                                                    *)
(***************************************************************************)
MaxPages == 2          \* documents of 0..MaxPages pages
MaxNodes == 3          \* SpecFlatten: outline trees of at most MaxNodes items in all
MaxOutline == 2        \* Spec: outline trees of at most MaxOutline items in all
MaxSpans == 2          \* text spans in a scanned document
MaxChapters == 3       \* length of the list given to _calculate_end_pages
MaxDefaultPages == 61  \* page counts given to _create_default_chapters

None == "None"         \* Python's None, as the value of self.detection_method
NoPage == -1           \* Python's None, as the result of _get_bookmark_page

(***************************************************************************)
(* Outline items (pikepdf OutlineItem): title, destination, action,        *)
(* children.  dest / action hold the page index the destination's page     *)
(* object resolves to, BadDest when pikepdf.Page(page_obj).index raises,   *)
(* NoDest when the attribute is absent or empty.  `raises` marks an item   *)
(* whose processing raises inside the per-item try (str(item.title),       *)
(* len(item.children) or the print).                                       *)
(***************************************************************************)
NoDest == -1
BadDest == -2

Titles == {"", "A", "B"}
DocTitles == {"Ch"}

Item(t, d, a, r, ch) ==
    [title |-> t, dest |-> d, action |-> a, raises |-> r, children |-> ch]

\* Childless items of SpecFlatten: every title, with a destination that
\* resolves (to page 0) or is absent, and one item that raises.
FlattenKinds ==
    {Item(t, d, NoDest, FALSE, <<>>) : t \in Titles, d \in {NoDest, 0}}
    \cup {Item("", NoDest, NoDest, TRUE, <<>>)}

\* Childless items of a document of n pages: a destination or an action that
\* resolves to any page of the document, fails to resolve or is absent, and
\* one item that raises.
DocKinds(n) ==
    {Item(t, d, NoDest, FALSE, <<>>) : t \in DocTitles, d \in {NoDest, BadDest} \cup (0 .. n - 1)}
    \cup {Item(t, NoDest, a, FALSE, <<>>) : t \in DocTitles, a \in {BadDest} \cup (0 .. n - 1)}
    \cup {Item("", NoDest, NoDest, TRUE, <<>>)}

\* Ordered forests of exactly k items in all (children included).
RECURSIVE Forests(_, _)
Forests(kinds, k) ==
    IF k = 0 THEN {<<>>}
    ELSE UNION {
            LET subs == Forests(kinds, j)
                rests == Forests(kinds, k - 1 - j)
            IN  { <<[it EXCEPT !.children = sub]>> \o rest :
                    it \in kinds, sub \in subs, rest \in rests }
            : j \in 0 .. k - 1 }

Outlines(kinds, maxn) == UNION { Forests(kinds, k) : k \in 0 .. maxn }

(***************************************************************************)
(* _get_bookmark_page                                                      *)
(***************************************************************************)
GetBookmarkPage(item) ==
    IF item.dest # NoDest
    THEN IF item.dest = BadDest THEN NoPage ELSE item.dest
    ELSE IF item.action # NoDest
         THEN IF item.action = BadDest THEN NoPage ELSE item.action
         ELSE NoPage

(***************************************************************************)
(* _extract_nested_bookmarks                                               *)
(***************************************************************************)
Sep == " → "

JoinTitle(parent_title, title) ==
    IF parent_title # "" THEN parent_title \o Sep \o title ELSE title

\* Mutant: the counter is not advanced past the chapters of a subtree.
AfterNestedStale(chapter_num, nested_chapters) == chapter_num

\* chapter_num += len(nested_chapters)
AfterNested(chapter_num, nested_chapters) == chapter_num + Len(nested_chapters)

\* Mutant: an item whose own destination does not resolve is not taken as a
\* container.
HasChildrenAndPage(item) == Len(item.children) > 0 /\ GetBookmarkPage(item) # NoPage

\* has_children = hasattr(item, 'children') and len(item.children) > 0
HasChildren(item) == Len(item.children) > 0

RECURSIVE ExtractLoop(_, _, _, _, _, _)
\* The for loop over items from index i on, with the loop's `chapters` and
\* `chapter_num` so far.
ExtractLoop(items, i, acc, chapter_num, parent_title, level) ==
    IF i > Len(items) THEN acc
    ELSE LET item == items[i]
             page_num == GetBookmarkPage(item)
             title == item.title
             has_children == HasChildren(item)
         IN  IF item.raises
             THEN ExtractLoop(items, i + 1, acc, chapter_num, parent_title, level)
             ELSE IF has_children
             THEN LET full_parent == JoinTitle(parent_title, title)
                      nested_chapters ==
                          ExtractLoop(item.children, 1, <<>>, chapter_num,
                                      full_parent, level + 1)
                  IN  ExtractLoop(items, i + 1, acc \o nested_chapters,
                                  AfterNested(chapter_num, nested_chapters),
                                  parent_title, level)
             ELSE IF page_num # NoPage
             THEN LET full_title == JoinTitle(parent_title, title)
                      chapter == [title |-> title,
                                  full_title |-> full_title,
                                  parent |-> parent_title,
                                  start_page |-> page_num,
                                  chapter_num |-> chapter_num,
                                  level |-> level]
                  IN  ExtractLoop(items, i + 1, Append(acc, chapter),
                                  chapter_num + 1, parent_title, level)
             ELSE ExtractLoop(items, i + 1, acc, chapter_num, parent_title, level)

ExtractNestedBookmarks(items, start_num, parent_title, level) ==
    ExtractLoop(items, 1, <<>>, start_num, parent_title, level)

(***************************************************************************)
(* _calculate_end_pages                                                    *)
(***************************************************************************)
\* chapters[i]['end_page'] = v: the field is added, or overwritten.
SetEndPage(chapter, v) ==
    [f \in DOMAIN chapter \cup {"end_page"} |->
        IF f = "end_page" THEN v ELSE chapter[f]]

\* Mutant: a chapter ends on the page the next one starts on.
CalculateEndPagesOverlap(chs, n) ==
    [i \in 1 .. Len(chs) |->
        IF i < Len(chs)
        THEN SetEndPage(chs[i], chs[i + 1].start_page)
        ELSE SetEndPage(chs[i], n - 1)]

\* Mutant: the last chapter ends at total_pages instead of total_pages - 1.
CalculateEndPagesPastEnd(chs, n) ==
    [i \in 1 .. Len(chs) |->
        IF i < Len(chs)
        THEN SetEndPage(chs[i], chs[i + 1].start_page - 1)
        ELSE SetEndPage(chs[i], n)]

\* The loop assigns end_page only and reads start_page only, so each
\* iteration sees the start pages the list came in with.
CalculateEndPages(chs, n) ==
    [i \in 1 .. Len(chs) |->
        IF i < Len(chs)
        THEN SetEndPage(chs[i], chs[i + 1].start_page - 1)
        ELSE SetEndPage(chs[i], n - 1)]

(***************************************************************************)
(* _create_default_chapters, after the document was opened.                *)
(***************************************************************************)
pages_per_chapter == 20

Digit == <<"0", "1", "2", "3", "4", "5", "6", "7", "8", "9">>

\* str() of a natural number, as the f-string formats chapter_num.
RECURSIVE IntToStr(_)
IntToStr(k) ==
    IF k < 10 THEN Digit[k + 1]
    ELSE IntToStr(k \div 10) \o Digit[(k % 10) + 1]

Min(a, b) == IF a < b THEN a ELSE b

\* Mutant: the last chunk is not clamped to the last page.
ChunkEndUnclamped(i, n) == i + pages_per_chapter - 1

\* min(i + pages_per_chapter - 1, total_pages - 1)
ChunkEnd(i, n) == Min(i + pages_per_chapter - 1, n - 1)

RECURSIVE DefaultLoop(_, _, _)
\* for i in range(0, total_pages, pages_per_chapter), from i on.
DefaultLoop(i, acc, n) ==
    IF i >= n THEN acc
    ELSE LET chapter_num == Len(acc) + 1
             chapter == [title |-> "Section " \o IntToStr(chapter_num),
                         full_title |-> "Section " \o IntToStr(chapter_num),
                         parent |-> "",
                         start_page |-> i,
                         end_page |-> ChunkEnd(i, n),
                         chapter_num |-> chapter_num,
                         level |-> 0]
         IN  DefaultLoop(i + pages_per_chapter, Append(acc, chapter), n)

CreateDefaultChapters(n) == DefaultLoop(0, <<>>, n)

(***************************************************************************)
(* _is_chapter_heading                                                     *)
(***************************************************************************)
UpperChars == <<"A", "B", "C", "D", "E", "F", "G", "H", "I", "J", "K", "L", "M",
                "N", "O", "P", "Q", "R", "S", "T", "U", "V", "W", "X", "Y", "Z">>
LowerChars == <<"a", "b", "c", "d", "e", "f", "g", "h", "i", "j", "k", "l", "m",
                "n", "o", "p", "q", "r", "s", "t", "u", "v", "w", "x", "y", "z">>
Range(f) == {f[i] : i \in DOMAIN f}
WhiteSpace == {" ", "\t", "\n"}

CharAt(s, i) == SubSeq(s, i, i)
IsUpper(c) == c \in Range(UpperChars)
LowerChar(c) ==
    IF IsUpper(c)
    THEN LowerChars[CHOOSE i \in DOMAIN UpperChars : UpperChars[i] = c]
    ELSE c

RECURSIVE Lower(_)
\* str.lower()
Lower(s) == IF s = "" THEN "" ELSE LowerChar(CharAt(s, 1)) \o Lower(Tail(s))

RECURSIVE Strip(_)
\* str.strip()
Strip(s) ==
    IF s = "" THEN ""
    ELSE IF CharAt(s, 1) \in WhiteSpace THEN Strip(Tail(s))
    ELSE IF CharAt(s, Len(s)) \in WhiteSpace THEN Strip(SubSeq(s, 1, Len(s) - 1))
    ELSE s

StartsWith(s, prefix) ==
    Len(s) >= Len(prefix) /\ SubSeq(s, 1, Len(prefix)) = prefix

RECURSIVE Skip(_, _, _)
\* The first index from i on whose character is not in set (Len(s) + 1 if none).
Skip(s, i, set) ==
    IF i <= Len(s) /\ CharAt(s, i) \in set THEN Skip(s, i + 1, set) ELSE i

\* s has, from index i on, one or more characters of `gap` and then one of `next`.
GapThen(s, i, gap, next) ==
    LET j == Skip(s, i, gap)
    IN  j > i /\ j <= Len(s) /\ CharAt(s, j) \in next

\* re.search of each pattern of `patterns`, in the list's order.
MatchChapter(s) == StartsWith(s, "chapter") /\ GapThen(s, 8, WhiteSpace, Range(Digit))
MatchNumbered(s) ==
    LET j == Skip(s, 1, Range(Digit))
    IN  j > 1 /\ j <= Len(s) /\ CharAt(s, j) = "."
        /\ GapThen(s, j + 1, WhiteSpace, Range(UpperChars))
MatchAllCaps(s) ==
    /\ Len(s) >= 6
    /\ IsUpper(CharAt(s, 1))
    /\ \A i \in 2 .. Len(s) : CharAt(s, i) \in Range(UpperChars) \cup WhiteSpace
MatchPart(s) ==
    StartsWith(s, "Part") /\ GapThen(s, 5, WhiteSpace, {"I", "V", "X"} \cup Range(Digit))
MatchSection(s) == StartsWith(s, "Section") /\ GapThen(s, 8, WhiteSpace, Range(Digit))

IsChapterHeading(text) ==
    LET text_lower == Lower(text)
    IN  \/ MatchChapter(text_lower)
        \/ MatchNumbered(text_lower)
        \/ MatchAllCaps(text_lower)
        \/ MatchPart(text_lower)
        \/ MatchSection(text_lower)
        \/ (Len(text) < 100 /\ Len(text) > 3 /\ IsUpper(CharAt(text, 1)))

(***************************************************************************)
(* The text of a document: its spans in scan order (page by page, block by *)
(* block, line by line), each with its page, text and font size.           *)
(***************************************************************************)
SpanTexts == {"Chapter 1", " chapter 2", "intro"}
FontSizes == {10, 20}

RECURSIVE SpansFrom(_, _, _)
\* The span lists of at most k spans on pages first .. n - 1.
SpansFrom(first, n, k) ==
    IF k = 0 THEN {<<>>}
    ELSE {<<>>} \cup UNION {
            LET rests == SpansFrom(p, n, k - 1)
            IN  { <<[page |-> p, text |-> t, size |-> z]>> \o rest :
                    t \in SpanTexts, z \in FontSizes, rest \in rests }
            : p \in first .. n - 1 }

SpanLists(n) == SpansFrom(0, n, MaxSpans)

(***************************************************************************)
(* _analyze_font_sizes and _calculate_heading_threshold                    *)
(***************************************************************************)
sample_pages == 20
default_threshold == 14

\* Mutant: every page is sampled.
AnalyzeFontSizesAllPages(spans, n) == [i \in 1 .. Len(spans) |-> spans[i].size]

AnalyzeFontSizes(spans, n) ==
    LET sampled == SelectSeq(spans, LAMBDA sp : sp.page < Min(sample_pages, n))
    IN  [i \in 1 .. Len(sampled) |-> sampled[i].size]

RECURSIVE InsertDesc(_, _)
InsertDesc(sorted, x) ==
    IF sorted = <<>> THEN <<x>>
    ELSE IF x > Head(sorted) THEN <<x>> \o sorted
    ELSE <<Head(sorted)>> \o InsertDesc(Tail(sorted), x)

RECURSIVE SortedDesc(_)
\* sorted(font_sizes, reverse=True)
SortedDesc(sizes) ==
    IF sizes = <<>> THEN <<>>
    ELSE InsertDesc(SortedDesc(SubSeq(sizes, 1, Len(sizes) - 1)), sizes[Len(sizes)])

CalculateHeadingThreshold(font_sizes) ==
    IF font_sizes = <<>> THEN default_threshold
    ELSE LET sorted_sizes == SortedDesc(font_sizes)
             percentile_90_idx == Len(sorted_sizes) \div 10
         IN  IF percentile_90_idx < Len(sorted_sizes)
             THEN sorted_sizes[percentile_90_idx + 1]
             ELSE default_threshold

(***************************************************************************)
(* _detect_from_headings: the try body.                                    *)
(***************************************************************************)
RECURSIVE HeadingLoop(_, _, _, _)
\* The scan from span i on, with the `chapters` found so far.
HeadingLoop(spans, i, acc, heading_threshold) ==
    IF i > Len(spans) THEN acc
    ELSE LET text == Strip(spans[i].text)
             font_size == spans[i].size
         IN  IF font_size >= heading_threshold /\ IsChapterHeading(text)
             THEN HeadingLoop(spans, i + 1,
                              Append(acc, [title |-> text,
                                           full_title |-> text,
                                           parent |-> "",
                                           start_page |-> spans[i].page,
                                           chapter_num |-> Len(acc) + 1,
                                           font_size |-> font_size,
                                           level |-> 0]),
                              heading_threshold)
             ELSE HeadingLoop(spans, i + 1, acc, heading_threshold)

\* Mutant: each heading found is put at the front of the list.
ScanHeadingsReversed(spans, heading_threshold) ==
    LET found == HeadingLoop(spans, 1, <<>>, heading_threshold)
    IN  [i \in 1 .. Len(found) |-> found[Len(found) + 1 - i]]

ScanHeadings(spans, heading_threshold) == HeadingLoop(spans, 1, <<>>, heading_threshold)

HeadingChapters(spans, n) ==
    LET font_sizes == AnalyzeFontSizes(spans, n)
        heading_threshold == CalculateHeadingThreshold(font_sizes)
    IN  CalculateEndPages(ScanHeadings(spans, heading_threshold), n)

\* Mutant: an empty scan result is treated as a failure too.
HeadingsFailedOrEmpty(scan_raises, found) == scan_raises \/ found = <<>>

\* The except clause is entered when the try body raised.
HeadingsFailed(scan_raises, found) == scan_raises

(***************************************************************************)
(* _detect_from_bookmarks                                                  *)
(***************************************************************************)
BookmarkChapters(opens, outline_raises, root, n) ==
    IF ~opens \/ outline_raises THEN <<>>
    ELSE IF root = <<>> THEN <<>>
    ELSE CalculateEndPages(ExtractNestedBookmarks(root, 1, "", 0), n)

(***************************************************************************)
(* detect_chapters                                                         *)
(***************************************************************************)
\* Mutant: the bookmark result is never taken.
BookmarksIgnored(chs) == FALSE

\* `if chapters:`
BookmarksFound(chs) == chs # <<>>

Init ==
    /\ pc = "start"
    /\ total_pages \in 0 .. MaxPages
    /\ pdf_opens \in BOOLEAN
    /\ input = <<>>
    /\ chapters = <<>>
    /\ detection_method = None
    /\ ran = <<>>
    /\ threshold = 0

\* chapters = self._detect_from_bookmarks()
DetectFromBookmarks ==
    /\ pc = "start"
    /\ \E outline_raises \in BOOLEAN :
       \E root \in Outlines(DocKinds(total_pages), MaxOutline) :
          chapters' = BookmarkChapters(pdf_opens, outline_raises, root, total_pages)
    /\ ran' = Append(ran, "bookmarks")
    /\ pc' = "L37"
    /\ UNCHANGED <<total_pages, pdf_opens, input, detection_method, threshold>>

\* if chapters: self.detection_method = 'bookmarks'; return chapters
ReturnBookmarks ==
    /\ pc = "L37"
    /\ BookmarksFound(chapters)
    /\ detection_method' = "bookmarks"
    /\ pc' = "done"
    /\ UNCHANGED <<total_pages, pdf_opens, input, chapters, ran, threshold>>

\* chapters = self._detect_from_headings(), up to its return or its except clause
DetectFromHeadings ==
    /\ pc = "L37"
    /\ ~BookmarksFound(chapters)
    /\ \E scan_raises \in BOOLEAN :
       \E spans \in SpanLists(total_pages) :
          /\ LET found == IF scan_raises THEN <<>>
                          ELSE HeadingChapters(spans, total_pages)
             IN  IF HeadingsFailed(scan_raises, found)
                 THEN /\ pc' = "L237"
                      /\ UNCHANGED chapters
                 ELSE /\ pc' = "L43"
                      /\ chapters' = found
          /\ ran' = ran \o (IF scan_raises THEN <<"headings", "raised">>
                                            ELSE <<"headings">>)
    /\ UNCHANGED <<total_pages, pdf_opens, input, detection_method, threshold>>

\* return self._create_default_chapters(): pikepdf.Pdf.open is outside any try
CreateDefault ==
    /\ pc = "L237"
    /\ IF pdf_opens
       THEN /\ chapters' = CreateDefaultChapters(total_pages)
            /\ pc' = "L43"
       ELSE /\ pc' = "raised"
            /\ UNCHANGED chapters
    /\ ran' = Append(ran, "default")
    /\ UNCHANGED <<total_pages, pdf_opens, input, detection_method, threshold>>

\* self.detection_method = 'headings'; return chapters
ReturnHeadings ==
    /\ pc = "L43"
    /\ detection_method' = "headings"
    /\ pc' = "done"
    /\ UNCHANGED <<total_pages, pdf_opens, input, chapters, ran, threshold>>

Next ==
    \/ DetectFromBookmarks
    \/ ReturnBookmarks
    \/ DetectFromHeadings
    \/ CreateDefault
    \/ ReturnHeadings

Spec == Init /\ [][Next]_vars

(***************************************************************************)
(* SpecFlatten: _extract_nested_bookmarks applied to an outline.           *)
(***************************************************************************)
InitFlatten ==
    /\ pc = "call"
    /\ total_pages = MaxPages
    /\ pdf_opens = TRUE
    /\ input \in Outlines(FlattenKinds, MaxNodes)
    /\ chapters = <<>>
    /\ detection_method = None
    /\ ran = <<>>
    /\ threshold = 0

Flatten ==
    /\ pc = "call"
    /\ chapters' = ExtractNestedBookmarks(input, 1, "", 0)
    /\ pc' = "returned"
    /\ UNCHANGED <<total_pages, pdf_opens, input, detection_method, ran, threshold>>

SpecFlatten == InitFlatten /\ [][Flatten]_vars

(***************************************************************************)
(* SpecResolve: _calculate_end_pages applied to a list of candidates that  *)
(* have no end_page yet, with any start pages and any page count.          *)
(***************************************************************************)
Candidate(k, p) ==
    [title |-> "T", full_title |-> "P → T", parent |-> "P",
     start_page |-> p, chapter_num |-> k, level |-> 1]

CandidateLists ==
    UNION { { [i \in 1 .. k |-> Candidate(i, f[i])] : f \in [1 .. k -> 0 .. MaxPages] }
            : k \in 0 .. MaxChapters }

InitResolve ==
    /\ pc = "call"
    /\ total_pages \in 0 .. MaxPages + 1
    /\ pdf_opens = TRUE
    /\ input \in CandidateLists
    /\ chapters = <<>>
    /\ detection_method = None
    /\ ran = <<>>
    /\ threshold = 0

Resolve ==
    /\ pc = "call"
    /\ chapters' = CalculateEndPages(input, total_pages)
    /\ pc' = "returned"
    /\ UNCHANGED <<total_pages, pdf_opens, input, detection_method, ran, threshold>>

SpecResolve == InitResolve /\ [][Resolve]_vars

(***************************************************************************)
(* SpecDefault: _create_default_chapters on a document that opens.         *)
(***************************************************************************)
InitDefault ==
    /\ pc = "call"
    /\ total_pages \in 0 .. MaxDefaultPages
    /\ pdf_opens = TRUE
    /\ input = <<>>
    /\ chapters = <<>>
    /\ detection_method = None
    /\ ran = <<>>
    /\ threshold = 0

Chapterize ==
    /\ pc = "call"
    /\ chapters' = CreateDefaultChapters(total_pages)
    /\ pc' = "returned"
    /\ UNCHANGED <<total_pages, pdf_opens, input, detection_method, ran, threshold>>

SpecDefault == InitDefault /\ [][Chapterize]_vars

(***************************************************************************)
(* SpecThreshold: the threshold estimation of _detect_from_headings        *)
(* (_analyze_font_sizes, then _calculate_heading_threshold) on a document  *)
(* of 1, 20 or 21 pages.  Its first spans lie one per page on pages 0, 1,  *)
(* ... up to the last sampled page, where the rest of them lie; on a       *)
(* document of 21 pages further spans may lie on page 20, which is not     *)
(* sampled.                                                                *)
(***************************************************************************)
MaxSampled == 10       \* spans on the sampled pages
MaxLate == 1           \* spans on the page after the sampled ones

ThresholdSizes == {14, 20}

SizeLists(max) == UNION { [1 .. k -> ThresholdSizes] : k \in 0 .. max }

ThresholdDocs(n) ==
    { [i \in 1 .. Len(early) + Len(late) |->
        IF i <= Len(early)
        THEN [page |-> Min(i - 1, Min(sample_pages, n) - 1), text |-> "x",
              size |-> early[i]]
        ELSE [page |-> sample_pages, text |-> "x", size |-> late[i - Len(early)]]] :
      early \in SizeLists(MaxSampled),
      late \in IF n > sample_pages THEN SizeLists(MaxLate) ELSE {<<>>} }

InitThreshold ==
    /\ pc = "call"
    /\ total_pages \in {1, sample_pages, sample_pages + 1}
    /\ pdf_opens = TRUE
    /\ input \in ThresholdDocs(total_pages)
    /\ chapters = <<>>
    /\ detection_method = None
    /\ ran = <<>>
    /\ threshold = 0

\* font_sizes = self._analyze_font_sizes(doc)
\* heading_threshold = self._calculate_heading_threshold(font_sizes)
EstimateThreshold ==
    /\ pc = "call"
    /\ threshold' =
            CalculateHeadingThreshold(AnalyzeFontSizes(input, total_pages))
    /\ pc' = "returned"
    /\ UNCHANGED <<total_pages, pdf_opens, input, chapters, detection_method, ran>>

SpecThreshold == InitThreshold /\ [][EstimateThreshold]_vars

(***************************************************************************)
(* Claims about detect_chapters (Spec).                                    *)
(***************************************************************************)
Returned == pc = "done"
HeadingScanRaised == ran = <<"bookmarks", "headings", "raised", "default">>
HeadingScanCompleted == ran = <<"bookmarks", "headings">>

\* C1: when the bookmark list is empty and the heading scan raises,
\* detect_chapters returns the default chapters of the document's page
\* count and detection_method is 'default'.
C1_DefaultAfterScanFailure ==
    (Returned /\ HeadingScanRaised) =>
        /\ chapters = CreateDefaultChapters(total_pages)
        /\ detection_method = "default"

\* C2: detect_chapters never propagates an exception, whatever fails
\* underneath; it always ends by returning a list.
C2_NeverPropagates == pc # "raised"

\* C3: a non-empty bookmark list ends the pass at once: it is returned
\* unchanged with detection_method 'bookmarks', and neither the heading scan
\* nor the default chapterizer is called.
C3_BookmarksFirst ==
    /\ [][(pc = "L37" /\ chapters # <<>>) =>
            /\ pc' = "done"
            /\ chapters' = chapters
            /\ detection_method' = "bookmarks"
            /\ ran' = <<"bookmarks">>]_vars
    /\ [](pc = "start" \/ ran[1] = "bookmarks")
    /\ []((Returned /\ detection_method = "bookmarks") => ran = <<"bookmarks">>)

C3_Witness ==
    /\ Returned
    /\ detection_method = "bookmarks"
    /\ ran = <<"bookmarks">>
    /\ Len(chapters) = 2

\* C4: a heading scan that completes and finds nothing ends the pass with the
\* empty list and detection_method 'headings'; the default chapterizer is
\* called only after a heading scan that raised.
C4_EmptyScanIsFinal ==
    /\ [][(pc = "L43" /\ HeadingScanCompleted /\ chapters = <<>>) =>
            /\ pc' = "done"
            /\ chapters' = <<>>
            /\ detection_method' = "headings"
            /\ ran' = ran]_vars
    /\ [](\A i \in 1 .. Len(ran) :
            ran[i] = "default" => (i > 1 /\ ran[i - 1] = "raised"))

C4_Witness ==
    /\ Returned
    /\ HeadingScanCompleted
    /\ chapters = <<>>
    /\ detection_method = "headings"

(***************************************************************************)
(* Claims about _calculate_end_pages (SpecResolve) and about the ranges of *)
(* a returned list (Spec).                                                 *)
(***************************************************************************)
\* C5: for a list of K >= 1 candidates and any page count, every candidate
\* but the last ends one page before the next one starts and the last ends
\* on page total_pages - 1; length, order and every other field are kept.
C5_EndPages ==
    (pc = "returned" /\ Len(input) >= 1) =>
        /\ Len(chapters) = Len(input)
        /\ \A i \in 1 .. Len(input) :
            /\ DOMAIN chapters[i] = DOMAIN input[i] \cup {"end_page"}
            /\ \A f \in DOMAIN input[i] : chapters[i][f] = input[i][f]
            /\ i < Len(input) => chapters[i].end_page = input[i + 1].start_page - 1
            /\ i = Len(input) => chapters[i].end_page = total_pages - 1

C5_Witness ==
    /\ pc = "returned"
    /\ Len(input) = 3
    /\ input[1].start_page = 0 /\ input[2].start_page = 2 /\ input[3].start_page = 2
    /\ total_pages = 3
    /\ chapters[1].end_page = 1 /\ chapters[2].end_page = 1 /\ chapters[3].end_page = 2

\* C6 as stated: every candidate of a returned list has
\* 0 <= start_page <= end_page <= total_pages - 1.
C6_RangesWellFormed ==
    Returned =>
        \A i \in 1 .. Len(chapters) :
            /\ 0 <= chapters[i].start_page
            /\ chapters[i].start_page <= chapters[i].end_page
            /\ chapters[i].end_page <= total_pages - 1

\* C6 as amended: every candidate of a returned list has
\* 0 <= start_page <= total_pages - 1 and end_page <= total_pages - 1, and
\* start_page <= end_page holds for the last candidate and for every
\* candidate whose successor starts on a strictly later page; a candidate
\* whose successor starts on the same or an earlier page has
\* end_page = the successor's start_page - 1 < start_page.
C6_RangesAmended ==
    Returned =>
        \A i \in 1 .. Len(chapters) :
            /\ 0 <= chapters[i].start_page
            /\ chapters[i].start_page <= total_pages - 1
            /\ chapters[i].end_page <= total_pages - 1
            /\ (i = Len(chapters) \/ chapters[i + 1].start_page > chapters[i].start_page)
                    => chapters[i].start_page <= chapters[i].end_page
            /\ (i < Len(chapters) /\ chapters[i + 1].start_page <= chapters[i].start_page)
                    => /\ chapters[i].end_page = chapters[i + 1].start_page - 1
                       /\ chapters[i].end_page < chapters[i].start_page

\* Two headings on page 1 of a two-page document: the first gets the empty
\* range [1, 0], the second [1, 1].
C6_Witness ==
    /\ Returned
    /\ detection_method = "headings"
    /\ total_pages = 2
    /\ Len(chapters) = 2
    /\ chapters[1].start_page = 1 /\ chapters[1].end_page = 0
    /\ chapters[2].start_page = 1 /\ chapters[2].end_page = 1

Ascending(chs) ==
    \A i \in 1 .. Len(chs) - 1 : chs[i].start_page <= chs[i + 1].start_page

\* C7 as stated: both detection paths produce their list in ascending
\* start_page order.
C7_AlwaysAscending == Ascending(chapters)

\* C7 as amended: the heading path produces its list in ascending start_page
\* order by construction; the bookmark path lists the leaves in outline
\* order whatever their destination pages, so its list is ascending only
\* when the outline's destinations are.
C7_HeadingsAscending ==
    (pc \in {"L43", "done"} /\ HeadingScanCompleted) => Ascending(chapters)

C7_Witness ==
    /\ Returned
    /\ HeadingScanCompleted
    /\ Len(chapters) = 2
    /\ chapters[1].start_page < chapters[2].start_page

(***************************************************************************)
(* Claims about _extract_nested_bookmarks (SpecFlatten).                   *)
(***************************************************************************)
RECURSIVE Join(_)
\* The titles of a path joined by the separator.
Join(titles) ==
    IF titles = <<>> THEN ""
    ELSE IF Len(titles) = 1 THEN titles[1]
    ELSE Join(SubSeq(titles, 1, Len(titles) - 1)) \o Sep \o titles[Len(titles)]

RECURSIVE Leaves(_, _)
\* The childless items of a forest whose destination resolves, in pre-order,
\* each with its page and the titles of its ancestors from the root down;
\* an item whose processing raises is left out with all beneath it.
Leaves(items, ancestors) ==
    IF items = <<>> THEN <<>>
    ELSE LET item == Head(items)
             here ==
                IF item.raises THEN <<>>
                ELSE IF item.children # <<>>
                THEN Leaves(item.children, Append(ancestors, item.title))
                ELSE IF item.dest \in Nat \/ (item.dest = NoDest /\ item.action \in Nat)
                THEN <<[title |-> item.title, ancestors |-> ancestors,
                        page |-> IF item.dest \in Nat THEN item.dest ELSE item.action]>>
                ELSE <<>>
         IN  here \o Leaves(Tail(items), ancestors)

\* C8: the i-th candidate of the flattened list has chapter_num = i, for any
\* nesting and with any items failing to resolve or raising: there is one
\* candidate per resolvable leaf that is reached, so a leaf that fails to
\* resolve takes no number and numbering runs on across sibling subtrees.
C8_ContiguousNumbers ==
    pc = "returned" =>
        /\ Len(chapters) = Len(Leaves(input, <<>>))
        /\ \A i \in 1 .. Len(chapters) : chapters[i].chapter_num = i

\* A container holding one resolvable leaf, then a top-level leaf: numbered
\* 1 and 2.
C8_Witness ==
    /\ pc = "returned"
    /\ Len(input) = 2
    /\ Len(input[1].children) = 1
    /\ Len(chapters) = 2
    /\ chapters[1].level = 1 /\ chapters[1].chapter_num = 1
    /\ chapters[2].level = 0 /\ chapters[2].chapter_num = 2

\* C9: flattening yields one candidate per resolvable leaf, in pre-order,
\* none for a container; its title is the leaf's title, parent the titles of
\* its ancestors joined by the separator, full_title parent + separator +
\* title (title alone for a top-level leaf), level its number of ancestors.
C9_LeafCandidates ==
    pc = "returned" =>
        LET leaves == Leaves(input, <<>>)
        IN  /\ Len(chapters) = Len(leaves)
            /\ \A i \in 1 .. Len(leaves) :
                /\ chapters[i].title = leaves[i].title
                /\ chapters[i].start_page = leaves[i].page
                /\ chapters[i].parent = Join(leaves[i].ancestors)
                /\ chapters[i].full_title =
                        IF leaves[i].ancestors = <<>> THEN leaves[i].title
                        ELSE Join(leaves[i].ancestors) \o Sep \o leaves[i].title
                /\ chapters[i].level = Len(leaves[i].ancestors)

(***************************************************************************)
(* Claims about _create_default_chapters (SpecDefault).                    *)
(***************************************************************************)
SectionTitles ==
    <<"Section 1", "Section 2", "Section 3", "Section 4", "Section 5",
      "Section 6", "Section 7", "Section 8", "Section 9", "Section 10">>

\* C10: for total_pages >= 0 the default chapters are ceil(total_pages / 20)
\* candidates, the k-th titled 'Section k' with chapter_num k, level 0,
\* start_page 20 (k - 1) and end_page min(20 k - 1, total_pages - 1); every
\* page of the document lies in exactly one of the ranges.
C10_DefaultChunks ==
    pc = "returned" =>
        /\ Len(chapters) = (total_pages + 19) \div 20
        /\ \A k \in 1 .. Len(chapters) :
            /\ k <= Len(SectionTitles) => chapters[k].title = SectionTitles[k]
            /\ chapters[k].full_title = chapters[k].title
            /\ chapters[k].chapter_num = k
            /\ chapters[k].level = 0
            /\ chapters[k].start_page = 20 * (k - 1)
            /\ chapters[k].end_page =
                    IF 20 * k - 1 < total_pages - 1 THEN 20 * k - 1 ELSE total_pages - 1
        /\ \A p \in 0 .. total_pages - 1 :
            Cardinality({k \in 1 .. Len(chapters) :
                chapters[k].start_page <= p /\ p <= chapters[k].end_page}) = 1

\* 45 pages: [0, 19], [20, 39], [40, 44].
C10_Witness ==
    /\ pc = "returned"
    /\ total_pages = 45
    /\ Len(chapters) = 3
    /\ chapters[3].title = "Section 3"
    /\ chapters[3].start_page = 40
    /\ chapters[3].end_page = 44

(***************************************************************************)
(* Claims about the heading threshold (SpecThreshold).                     *)
(***************************************************************************)
\* The sizes of the spans on the first min(20, page count) pages.
SampledSizes ==
    LET on == {i \in 1 .. Len(input) : input[i].page < 20 /\ input[i].page < total_pages}
    IN  [i \in on |-> input[i].size]

\* v stands at 0-based index k of the sizes sz in descending order: at most
\* k of them are larger than v and more than k are at least v.
AtDescendingIndex(v, sz, k) ==
    /\ \E i \in DOMAIN sz : sz[i] = v
    /\ Cardinality({i \in DOMAIN sz : sz[i] > v}) <= k
    /\ Cardinality({i \in DOMAIN sz : sz[i] >= v}) > k

Resolves(item) == item.dest \in Nat \/ (item.dest = NoDest /\ item.action \in Nat)

RECURSIVE LeavesBelow(_, _)
\* The childless items of a forest whose destination resolves, in pre-order,
\* each with the titles of those of its ancestors whose own destination
\* does not resolve (`unresolved` holds them for the forest's parent path);
\* an item whose processing raises is left out with all beneath it.
LeavesBelow(items, unresolved) ==
    IF items = <<>> THEN <<>>
    ELSE LET item == Head(items)
             here ==
                IF item.raises THEN <<>>
                ELSE IF item.children # <<>>
                THEN LeavesBelow(item.children,
                                 IF Resolves(item) THEN unresolved
                                 ELSE Append(unresolved, item.title))
                ELSE IF Resolves(item)
                THEN <<[title |-> item.title, unresolved |-> unresolved]>>
                ELSE <<>>
         IN  here \o LeavesBelow(Tail(items), unresolved)

\* t occurs in s.
Contains(s, t) ==
    \E i \in 1 .. Len(s) + 1 :
        i + Len(t) - 1 <= Len(s) /\ SubSeq(s, i, i + Len(t) - 1) = t

\* C12: a container whose own destination does not resolve is still
\* descended into: every resolvable leaf beneath it is in the flattened
\* list, in order, with the container's title in its parent and full_title;
\* the only items dropped for an unresolved destination are childless.
C12_UnresolvedContainer ==
    pc = "returned" =>
        LET below == LeavesBelow(input, <<>>)
        IN  /\ Len(chapters) = Len(below)
            /\ \A i \in 1 .. Len(below) :
                /\ chapters[i].title = below[i].title
                /\ \A k \in 1 .. Len(below[i].unresolved) :
                    /\ Contains(chapters[i].parent, below[i].unresolved[k])
                    /\ Contains(chapters[i].full_title, below[i].unresolved[k])

\* A container "A" without destination holding the leaf "B" on page 0.
C12_Witness ==
    /\ pc = "returned"
    /\ Len(input) = 1
    /\ input[1].title = "A" /\ input[1].dest = NoDest /\ input[1].action = NoDest
    /\ ~input[1].raises
    /\ Len(input[1].children) = 1
    /\ chapters = <<[title |-> "B", full_title |-> "A → B", parent |-> "A",
                     start_page |-> 0, chapter_num |-> 1, level |-> 1]>>

====
